---- MODULE Spec2Model ----
(***************************************************************************)
(* Model of db_setup.py: the derivation of the four-table schema from the  *)
(* first csv file (make_database, get_col_types_for_db), the first-wins    *)
(* filter get_uniques, and the __main__ loop that appends flight rows per  *)
(* file, accumulates the three dimension dataframes and flushes them.      *)
(*                                                                         *)
(* A dataframe is a record [columns, rows]: columns is the sequence of     *)
(* column names, rows a sequence of functions from column name to cell.    *)
(* Cells are csv texts; the text "NaN" is what read_csv reads as missing.  *)
(***************************************************************************)
EXTENDS Integers, Sequences, FiniteSets, TLC

(***************************************************************************)
(* Bounds of the model.                                                    *)
(***************************************************************************)
MaxBatches == 2
MaxRows == 2
MaxLen == 3
MaxExtras == 1
MaxLookUps == 1

(***************************************************************************)
(* Sequence helpers.                                                       *)
(***************************************************************************)
Range(s) == {s[i] : i \in 1..Len(s)}

SeqsUpTo(S, n) == UNION {[1..m -> S] : m \in 0..n}

RECURSIVE Flatten(_)
Flatten(ss) == IF ss = <<>> THEN <<>> ELSE Head(ss) \o Flatten(Tail(ss))

(***************************************************************************)
(* pandas: missing cells, the empty dataframe, column selection, renaming, *)
(* concatenation.                                                          *)
(***************************************************************************)
NaN == "NaN"

\* an exception raised in place of a dataframe
KeyError == [error |-> "KeyError"]

IsError(df) == "error" \in DOMAIN df

\* pd.DataFrame()
EmptyFrame == [columns |-> <<>>, rows |-> <<>>]

\* df[cols]
Select(df, cols) ==
  [columns |-> cols,
   rows |-> [i \in 1..Len(df.rows) |-> [c \in Range(cols) |-> df.rows[i][c]]]]

\* df.columns = new_cols  (positional renaming)
Rename(df, new_cols) ==
  [columns |-> new_cols,
   rows |-> [i \in 1..Len(df.rows) |->
              [c \in Range(new_cols) |->
                 LET k == CHOOSE j \in 1..Len(new_cols) : new_cols[j] = c
                 IN  df.rows[i][df.columns[k]]]]]

\* the columns of pd.concat([a, b]): those of a, then the new ones of b
UnionColumns(a, b) == a \o SelectSeq(b, LAMBDA c : c \notin Range(a))

\* a row reindexed to a wider column list: absent cells are missing
Reindex(row, cols) ==
  [c \in Range(cols) |-> IF c \in DOMAIN row THEN row[c] ELSE NaN]

\* pd.concat([a, b])
Concat2(a, b) ==
  LET cols == UnionColumns(a.columns, b.columns)
  IN  [columns |-> cols,
       rows |-> [i \in 1..Len(a.rows) |-> Reindex(a.rows[i], cols)]
                \o [i \in 1..Len(b.rows) |-> Reindex(b.rows[i], cols)]]

\* pd.concat(frames)
RECURSIVE Concat(_)
Concat(frames) ==
  IF frames = <<>> THEN EmptyFrame
  ELSE IF Len(frames) = 1 THEN frames[1]
  ELSE Concat(<<Concat2(frames[1], frames[2])>> \o SubSeq(frames, 3, Len(frames)))

(***************************************************************************)
(* get_uniques: the first row for each unique value of one column.         *)
(***************************************************************************)
\* df[column].unique(): the values in order of first appearance; all
\* missing cells count as one value
Unique(vals) ==
  SelectSeq([i \in 1..Len(vals) |-> <<i, vals[i]>>],
            LAMBDA p : \A j \in 1..(p[1] - 1) : vals[j] # p[2])

UniqueValues(df, column_uniques) ==
  LET cells == [i \in 1..Len(df.rows) |-> df.rows[i][column_uniques]]
      firsts == Unique(cells)
  IN  [i \in 1..Len(firsts) |-> firsts[i][2]]

\* get_uniques keeping the last row of each value instead of the first
LastRowWhere(df, column_uniques, val) ==
  LET hits == SelectSeq(df.rows,
                        LAMBDA r : r[column_uniques] # NaN /\ val # NaN
                                   /\ r[column_uniques] = val)
  IN  [columns |-> df.columns,
       rows |-> IF hits = <<>> THEN <<>> ELSE <<hits[Len(hits)]>>]

\* df[df[column_uniques] == val].iloc[:1, :]  (a missing cell equals nothing)
FirstRowWhere(df, column_uniques, val) ==
  LET hits == SelectSeq(df.rows,
                        LAMBDA r : r[column_uniques] # NaN /\ val # NaN
                                   /\ r[column_uniques] = val)
  IN  [columns |-> df.columns,
       rows |-> IF hits = <<>> THEN <<>> ELSE <<hits[1]>>]

\* the loop of get_uniques over the unique values, df_uniques growing
RECURSIVE UniquesLoop(_, _, _, _)
UniquesLoop(df, column_uniques, vals, df_uniques) ==
  IF vals = <<>> THEN df_uniques
  ELSE UniquesLoop(df, column_uniques, Tail(vals),
                   Concat(<<df_uniques,
                            FirstRowWhere(df, column_uniques, Head(vals))>>))

\* get_uniques(df, column_uniques); df[column_uniques] raises KeyError when
\* the dataframe has no such column
get_uniques(df, column_uniques) ==
  IF IsError(df) THEN df
  ELSE IF column_uniques \notin Range(df.columns) THEN KeyError
  ELSE UniquesLoop(df, column_uniques,
                   UniqueValues(df, column_uniques), EmptyFrame)

(***************************************************************************)
(* make_database: the literal column lists and the derived groups.         *)
(***************************************************************************)
cols_id ==
  <<"FlightDate", "Reporting_Airline", "OriginAirportID", "DestAirportID">>

cols_time ==
  <<"Year", "Quarter", "Month", "DayofMonth", "DayOfWeek", "FlightDate">>

cols_airline ==
  <<"Reporting_Airline", "DOT_ID_Reporting_Airline",
    "IATA_CODE_Reporting_Airline">>

cols_airport_origin ==
  <<"OriginAirportID", "OriginAirportSeqID", "OriginCityMarketID", "Origin",
    "OriginCityName", "OriginState", "OriginStateFips", "OriginStateName",
    "OriginWac">>

cols_airport_dest ==
  <<"DestAirportID", "DestAirportSeqID", "DestCityMarketID", "Dest",
    "DestCityName", "DestState", "DestStateFips", "DestStateName",
    "DestWac">>

\* col[4:]
DropFour(col) == SubSeq(col, 5, Len(col))

\* the flight columns without the id columns put back
cols_flight_no_ids(df_columns) ==
  SelectSeq(df_columns,
            LAMBDA col : /\ col \notin Range(cols_time)
                         /\ col \notin Range(cols_airline)
                         /\ col \notin Range(cols_airport_origin)
                         /\ col \notin Range(cols_airport_dest))

cols_flight(df_columns) ==
  SelectSeq(df_columns,
            LAMBDA col : \/ /\ col \notin Range(cols_time)
                            /\ col \notin Range(cols_airline)
                            /\ col \notin Range(cols_airport_origin)
                            /\ col \notin Range(cols_airport_dest)
                         \/ col \in Range(cols_id))

cols_airport ==
  [i \in 1..Len(cols_airport_dest) |->
     IF cols_airport_dest[i] # "Dest" THEN DropFour(cols_airport_dest[i])
     ELSE "Airport"]

TableNames == {"time_period", "airports", "airlines", "flights"}

\* the dictionary make_database returns
make_database(df_columns) ==
  [time_period |-> cols_time, airports |-> cols_airport,
   airlines |-> cols_airline, flights |-> cols_flight(df_columns)]

(***************************************************************************)
(* get_col_types_for_db: database types from the dtypes of a dataframe.    *)
(***************************************************************************)
\* the kinds of column content read_csv tells apart
Kinds == {"integral", "fractional", "text", "allnull", "boolean"}

\* the dtype read_csv gives a column of each kind
Dtype(kind) ==
  CASE kind = "integral" -> "int64"
    [] kind = "fractional" -> "float64"
    [] kind = "text" -> "object"
    [] kind = "allnull" -> "float64"
    [] kind = "boolean" -> "bool"

col_type(dtype, col, primary_key) ==
  LET data_type == IF dtype = "int64" THEN "INTEGER"
                   ELSE IF dtype = "float64" THEN "REAL"
                   ELSE IF dtype = "object" THEN "TEXT"
                   ELSE ""
  IN  IF col = primary_key THEN data_type \o " PRIMARY KEY" ELSE data_type

\* primary_key None is a name no column has
None == "None"

get_col_types_for_db(columns, kinds, primary_key) ==
  [i \in 1..Len(columns) |->
     col_type(Dtype(kinds[columns[i]]), columns[i], primary_key)]

(***************************************************************************)
(* The csv files: every file has the same header; its rows are drawn from  *)
(* a small set of flight records.                                          *)
(***************************************************************************)
\* the header of a csv file; the trailing comma of every line makes
\* read_csv add a column it names "Unnamed: <position>"
csv_columns ==
  cols_time \o cols_airline \o cols_airport_origin \o cols_airport_dest
  \o <<"DepTime", "Unnamed: 28">>

\* one csv line: the cells that tell rows apart, the others filled in
CsvRow(date, airline, dot_id, origin_id, origin, dest_id, dest, dep) ==
  [c \in Range(csv_columns) |->
     CASE c = "FlightDate" -> date
       [] c = "Reporting_Airline" -> airline
       [] c = "DOT_ID_Reporting_Airline" -> dot_id
       [] c = "IATA_CODE_Reporting_Airline" -> airline
       [] c = "OriginAirportID" -> origin_id
       [] c = "Origin" -> origin
       [] c = "OriginAirportSeqID" -> origin_id
       [] c = "DestAirportID" -> dest_id
       [] c = "Dest" -> dest
       [] c = "DestAirportSeqID" -> dest_id
       [] c = "DepTime" -> dep
       [] c = "Year" -> "2019"
       [] c = "DayofMonth" -> date
       [] c = "Unnamed: 28" -> NaN
       [] OTHER -> "1"]

\* flight 1 -> 2; the return flight 2 -> 1 on the next day, with other
\* airline and airport details; a flight of that next day whose origin is
\* its destination, described differently on the two sides
SampleRows ==
  { CsvRow("2019-01-01", "AA", "19805", "1", "JFK", "2", "LAX", "0900"),
    CsvRow("2019-01-02", "AA", "19999", "2", "LAX-B", "1", "JFK", "1000"),
    CsvRow("2019-01-02", "DL", "19790", "1", "JFK-B", "1", "JFK", "1100") }

\* pd.read_csv(csv_file) of a file with the given lines
read_csv(lines) == [columns |-> csv_columns, rows |-> lines]

\* "Unnamed" in col
Contains(col, part) ==
  \E i \in 1..(Len(col) - Len(part) + 1) :
     SubSeq(col, i, i + Len(part) - 1) = part

\* lines 248-250: the columns that survive df.drop(col, axis=1)
KeptColumns(columns) ==
  SelectSeq(columns, LAMBDA col : ~Contains(col, "Unnamed"))

DropUnnamed(df) == Select(df, KeptColumns(df.columns))

CsvFiles == SeqsUpTo(SampleRows, MaxRows)

\* f"Dest{col}" if col != "Airport" else "Dest", for the airport columns
Prefixed(prefix, cols) ==
  [i \in 1..Len(cols) |->
     IF cols[i] # "Airport" THEN prefix \o cols[i] ELSE prefix]

(***************************************************************************)
(* State.                                                                  *)
(***************************************************************************)
VARIABLES
  batches,          \* the dataframes read so far, one per processed file
  db_tables,        \* the dictionary of make_database, set by the first file
  df_time_periods,  \* the three accumulated dimension dataframes
  df_airports,
  df_airlines,
  tables,           \* the rows each database table holds
  appends,          \* the number of appending to_sql calls made on each table
  look_ups,         \* the look-up files transferred so far
  pc,               \* "loop", "flush_airports", "flush_airlines", "look_up",
                    \* "done", "error"
  raised,           \* the exception that ended the run, or "" for none
  sample,           \* schema derivation: the first file's columns and kinds
  sample_tables,    \* schema derivation: the returned dictionary
  sample_types,     \* schema derivation: the column types of each table
  frame_in,         \* get_uniques applied twice: the argument
  frame_once,       \* get_uniques applied twice: the first result
  frame_twice       \* get_uniques applied twice: the second result

pipeVars ==
  <<batches, db_tables, df_time_periods, df_airports, df_airlines, tables,
    appends, look_ups, pc, raised>>

schemaVars == <<sample, sample_tables, sample_types>>

uniqVars == <<frame_in, frame_once, frame_twice>>

vars == <<pipeVars, schemaVars, uniqVars>>

\* db_tables before the first file is read (the name is unbound)
NoTables ==
  [time_period |-> <<>>, airports |-> <<>>, airlines |-> <<>>,
   flights |-> <<>>]

PipeInit ==
  /\ batches = <<>>
  /\ db_tables = NoTables
  /\ df_time_periods = EmptyFrame
  /\ df_airports = EmptyFrame
  /\ df_airlines = EmptyFrame
  /\ tables = [t \in TableNames |-> <<>>]
  /\ appends = [t \in TableNames |-> 0]
  /\ look_ups = <<>>
  /\ pc = "loop"
  /\ raised = ""

SchemaIdle ==
  /\ sample = [columns |-> <<>>, kinds |-> <<>>]
  /\ sample_tables = NoTables
  /\ sample_types = NoTables

UniqIdle ==
  /\ frame_in = EmptyFrame
  /\ frame_once = EmptyFrame
  /\ frame_twice = EmptyFrame

(***************************************************************************)
(* __main__: the loop body for one csv file.                               *)
(***************************************************************************)
\* the primary key make_database declares for each table it creates
\* (lines 151-170): the column whose type carries " PRIMARY KEY"
primary_key(table) ==
  CASE table = "time_period" -> "FlightDate"
    [] table = "airports" -> "AirportID"
    [] table = "airlines" -> "Reporting_Airline"
    [] OTHER -> None

\* sqlite refuses an insert that leaves two rows with one primary-key value
\* (missing keys do not collide)
KeyClash(rows, key) ==
  /\ key # None
  /\ \E i, j \in 1..Len(rows) :
        i < j /\ rows[i][key] # NaN /\ rows[i][key] = rows[j][key]

\* df.to_sql(table, conn, if_exists="append"): all rows are inserted, or
\* sqlite3.IntegrityError is raised and none is
to_sql(db, calls, df, table) ==
  LET clash == KeyClash(db[table] \o df.rows, primary_key(table))
  IN  [rows |-> IF clash THEN db ELSE [db EXCEPT ![table] = @ \o df.rows],
       calls |-> [calls EXCEPT ![table] = @ + 1],
       error |-> IF clash THEN "IntegrityError" ELSE ""]

\* the airport step with the origin airports left out
ProcessAirports_NoOrigin(airports, df, tabs) ==
  LET dest_airports ==
        Rename(Select(df, Prefixed("Dest", tabs.airports)), tabs.airports)
  IN  get_uniques(Concat(<<airports, dest_airports>>), "AirportID")

\* the airport step with the file's airports put before the accumulated ones
ProcessAirports_NewFirst(airports, df, tabs) ==
  LET dest_airports ==
        Rename(Select(df, Prefixed("Dest", tabs.airports)), tabs.airports)
      origin_airports ==
        Rename(Select(df, Prefixed("Origin", tabs.airports)), tabs.airports)
  IN  get_uniques(Concat(<<dest_airports, origin_airports, airports>>),
                  "AirportID")

\* lines 263-268: destination and origin airports under the airport columns,
\* merged into the airport dataframe and filtered by AirportID
ProcessAirports(airports, df, tabs) ==
  LET dest_airports ==
        Rename(Select(df, Prefixed("Dest", tabs.airports)), tabs.airports)
      origin_airports ==
        Rename(Select(df, Prefixed("Origin", tabs.airports)), tabs.airports)
  IN  get_uniques(Concat(<<airports, dest_airports, origin_airports>>),
                  "AirportID")

\* lines 272-273
ProcessAirlines(airlines_so_far, df, tabs) ==
  LET airlines == get_uniques(Select(df, tabs.airlines), "Reporting_Airline")
  IN  Concat(<<airlines_so_far, airlines>>)

\* lines 277-278
ProcessTimePeriods(time_periods_so_far, df, tabs) ==
  LET time_periods == get_uniques(Select(df, tabs.time_period), "FlightDate")
  IN  Concat(<<time_periods_so_far, time_periods>>)

\* the flight step appending only the first flight of each day
ProcessFlights_Unique(db, calls, df, tabs) ==
  to_sql(db, calls, get_uniques(Select(df, tabs.flights), "FlightDate"),
         "flights")

\* the flight step appending the file's time periods as well
ProcessFlights_AndTimePeriods(db, calls, df, tabs) ==
  LET sql == to_sql(db, calls, Select(df, tabs.flights), "flights")
      both == to_sql(sql.rows, sql.calls,
                     get_uniques(Select(df, tabs.time_period), "FlightDate"),
                     "time_period")
  IN  [rows |-> both.rows, calls |-> both.calls, error |-> sql.error]

\* line 259
ProcessFlights(db, calls, df, tabs) ==
  to_sql(db, calls, Select(df, tabs.flights), "flights")

ProcessBatch ==
  /\ pc = "loop"
  /\ Len(batches) < MaxBatches
  /\ \E lines \in CsvFiles :
       LET df == DropUnnamed(read_csv(lines))
           tabs == IF Len(batches) = 0 THEN make_database(df.columns)
                   ELSE db_tables
           sql == ProcessFlights(tables, appends, df, tabs)
       IN  /\ batches' = Append(batches, df)
           /\ db_tables' = tabs
           /\ tables' = sql.rows
           /\ appends' = sql.calls
           /\ IF sql.error # ""
              THEN /\ pc' = "error"
                   /\ raised' = sql.error
                   /\ UNCHANGED <<df_airports, df_airlines, df_time_periods>>
              ELSE /\ df_airports' = ProcessAirports(df_airports, df, tabs)
                   /\ df_airlines' = ProcessAirlines(df_airlines, df, tabs)
                   /\ df_time_periods' =
                        ProcessTimePeriods(df_time_periods, df, tabs)
                   /\ UNCHANGED <<pc, raised>>
  /\ UNCHANGED <<look_ups, schemaVars, uniqVars>>

(***************************************************************************)
(* __main__: after the loop, lines 284, 286 and 287.                       *)
(***************************************************************************)
\* line 284: with no file read, conn was never bound; the time-period
\* dataframe is appended as it is, FlightDate being the table's primary key
FlushTimePeriods ==
  /\ pc = "loop"
  /\ IF batches = <<>>
     THEN /\ pc' = "error"
          /\ raised' = "NameError"
          /\ UNCHANGED <<tables, appends>>
     ELSE LET sql == to_sql(tables, appends, df_time_periods, "time_period")
          IN  /\ tables' = sql.rows
              /\ appends' = sql.calls
              /\ pc' = IF sql.error # "" THEN "error" ELSE "flush_airports"
              /\ raised' = sql.error
  /\ UNCHANGED <<batches, db_tables, df_time_periods, df_airports,
                 df_airlines, look_ups, schemaVars, uniqVars>>

\* get_uniques(buffer, key).to_sql(table, ...)
FlushUniques(buffer, key, table, next) ==
  LET uniques == get_uniques(buffer, key)
  IN  IF IsError(uniques)
      THEN /\ pc' = "error"
           /\ raised' = uniques.error
           /\ UNCHANGED <<tables, appends>>
      ELSE LET sql == to_sql(tables, appends, uniques, table)
           IN  /\ tables' = sql.rows
               /\ appends' = sql.calls
               /\ pc' = IF sql.error # "" THEN "error" ELSE next
               /\ raised' = sql.error

\* line 286
FlushAirports ==
  /\ pc = "flush_airports"
  /\ FlushUniques(df_airports, "AirportID", "airports", "flush_airlines")
  /\ UNCHANGED <<batches, db_tables, df_time_periods, df_airports,
                 df_airlines, look_ups, schemaVars, uniqVars>>

\* line 287
FlushAirlines ==
  /\ pc = "flush_airlines"
  /\ FlushUniques(df_airlines, "Reporting_Airline", "airlines", "look_up")
  /\ UNCHANGED <<batches, db_tables, df_time_periods, df_airports,
                 df_airlines, look_ups, schemaVars, uniqVars>>

(***************************************************************************)
(* __main__: the look-up tables, lines 289-295.                            *)
(***************************************************************************)
\* the csv files get_all_csvs may find under DOWNLOAD_PATH_LOOKUP
LookUpFiles ==
  {"data/lookup_tables/L_AIRPORT_ID.csv", "data/lookup_tables/airlines.csv"}

\* pd.read_csv(path_file) of a look-up file
LookUpRows == <<[Code |-> "1", Description |-> "first"]>>

Positions(text, char) ==
  {i \in 1..Len(text) : SubSeq(text, i, i) = char}

\* text.split(char)[-1]
LastPart(text, char) ==
  LET at == Positions(text, char)
  IN  IF at = {} THEN text
      ELSE SubSeq(text, (CHOOSE i \in at : \A j \in at : j <= i) + 1, Len(text))

\* text.split(char)[0]
FirstPart(text, char) ==
  LET at == Positions(text, char)
  IN  IF at = {} THEN text
      ELSE SubSeq(text, 1, (CHOOSE i \in at : \A j \in at : i <= j) - 1)

\* path_file.split("/")[-1].split(".")[0]
table_name(path_file) == FirstPart(LastPart(path_file, "/"), ".")

\* to_sql(table_name, db_connection, if_exists="replace")
transfer_look_up_table_to_db(db, path_file) ==
  [t \in DOMAIN db \cup {table_name(path_file)} |->
     IF t = table_name(path_file) THEN LookUpRows ELSE db[t]]

\* one turn of the loop of lines 291-292
TransferLookUpTable ==
  /\ pc = "look_up"
  /\ Len(look_ups) < MaxLookUps
  /\ \E path_file \in LookUpFiles \ Range(look_ups) :
       /\ tables' = transfer_look_up_table_to_db(tables, path_file)
       /\ look_ups' = Append(look_ups, path_file)
  /\ UNCHANGED <<batches, db_tables, df_time_periods, df_airports,
                 df_airlines, appends, pc, raised, schemaVars, uniqVars>>

\* line 295, after the last look-up file
CloseConnection ==
  /\ pc = "look_up"
  /\ pc' = "done"
  /\ UNCHANGED <<batches, db_tables, df_time_periods, df_airports,
                 df_airlines, tables, appends, look_ups, raised, schemaVars,
                 uniqVars>>

Init == PipeInit /\ SchemaIdle /\ UniqIdle

Next ==
  \/ ProcessBatch
  \/ FlushTimePeriods
  \/ FlushAirports
  \/ FlushAirlines
  \/ TransferLookUpTable
  \/ CloseConnection

Spec == Init /\ [][Next]_vars

(***************************************************************************)
(* make_database applied to a first file: the inputs are the columns of    *)
(* the file (every column of the literal lists, then up to MaxExtras       *)
(* further columns) and the kind of content of each column.                *)
(***************************************************************************)
\* further columns a file may carry; Airport is also the name an airport
\* table column gets
ExtraColumns == {"DepTime", "Cancelled", "Airport", "Unnamed: 28"}

ClaimColumns ==
  cols_time \o cols_airline \o cols_airport_origin \o cols_airport_dest

TextColumns ==
  {"FlightDate", "Reporting_Airline", "IATA_CODE_Reporting_Airline",
   "Origin", "OriginCityName", "OriginState", "OriginStateName",
   "Dest", "DestCityName", "DestState", "DestStateName"}

\* the kind of content the published files have in each column
UsualKind(col) == IF col \in TextColumns THEN "text" ELSE "integral"

ExtraLists(n) ==
  {e \in SeqsUpTo(ExtraColumns, n) :
     \A i, j \in 1..Len(e) : i # j => e[i] # e[j]}

\* a first file: the extra columns of the given kinds, one other column of
\* the given kind
Sample(extras, extra_kinds, odd, odd_kind) ==
  LET columns == ClaimColumns \o extras
      usual == [c \in Range(ClaimColumns) |->
                  IF c = odd THEN odd_kind ELSE UsualKind(c)]
  IN  [columns |-> columns,
       kinds |-> [c \in Range(columns) |->
                    IF c \in DOMAIN extra_kinds THEN extra_kinds[c]
                    ELSE usual[c]]]

\* first files with up to n extra columns
Samples(n) ==
  UNION {{Sample(e, ke, odd, kodd) :
            ke \in [Range(e) -> Kinds],
            odd \in Range(ClaimColumns), kodd \in Kinds} :
         e \in ExtraLists(n)}

SchemaInit ==
  /\ sample \in Samples(MaxExtras)
  /\ sample_tables = NoTables
  /\ sample_types = NoTables

\* lines 248-254 and make_database: the column groups and, for each table,
\* the types get_col_types_for_db derives (lines 151-170)
MakeDatabase ==
  /\ pc = "make_database"
  /\ LET columns == KeptColumns(sample.columns)
         tabs == make_database(columns)
     IN  /\ sample_tables' = tabs
         /\ sample_types' =
              [time_period |->
                 get_col_types_for_db(cols_time, sample.kinds, "FlightDate"),
               airports |->
                 get_col_types_for_db(cols_airport_dest, sample.kinds,
                                      "DestAirportID"),
               airlines |->
                 get_col_types_for_db(cols_airline, sample.kinds,
                                      "Reporting_Airline"),
               flights |->
                 get_col_types_for_db(tabs.flights, sample.kinds, None)]
  /\ pc' = "schema_done"
  /\ UNCHANGED <<batches, db_tables, df_time_periods, df_airports,
                 df_airlines, tables, appends, look_ups, raised, sample,
                 uniqVars>>

InitSchema ==
  /\ batches = <<>>
  /\ db_tables = NoTables
  /\ df_time_periods = EmptyFrame
  /\ df_airports = EmptyFrame
  /\ df_airlines = EmptyFrame
  /\ tables = [t \in TableNames |-> <<>>]
  /\ appends = [t \in TableNames |-> 0]
  /\ look_ups = <<>>
  /\ pc = "make_database"
  /\ raised = ""
  /\ SchemaInit
  /\ UniqIdle

NextSchema == MakeDatabase

SpecSchema == InitSchema /\ [][NextSchema]_vars

(***************************************************************************)
(* get_uniques applied to its own result: the inputs are airline           *)
(* dataframes of up to MaxLen rows, keyed by Reporting_Airline.            *)
(***************************************************************************)
AirlineRows ==
  {[c \in Range(cols_airline) |->
      CASE c = "Reporting_Airline" -> k
        [] c = "DOT_ID_Reporting_Airline" -> d
        [] OTHER -> "XX"] :
     k \in {"AA", "DL", NaN}, d \in {"19805", "19999"}}

AirlineFrames ==
  {[columns |-> cols_airline, rows |-> r] : r \in SeqsUpTo(AirlineRows, MaxLen)}

UniquesOnce ==
  /\ pc = "uniques"
  /\ frame_once' = get_uniques(frame_in, "Reporting_Airline")
  /\ pc' = "uniques_once"
  /\ UNCHANGED <<batches, db_tables, df_time_periods, df_airports,
                 df_airlines, tables, appends, look_ups, raised,
                 schemaVars, frame_in, frame_twice>>

UniquesTwice ==
  /\ pc = "uniques_once"
  /\ frame_twice' = get_uniques(frame_once, "Reporting_Airline")
  /\ pc' = "uniques_twice"
  /\ raised' = IF IsError(frame_twice') THEN frame_twice'.error ELSE ""
  /\ UNCHANGED <<batches, db_tables, df_time_periods, df_airports,
                 df_airlines, tables, appends, look_ups, schemaVars,
                 frame_in, frame_once>>

InitUniques ==
  /\ batches = <<>>
  /\ db_tables = NoTables
  /\ df_time_periods = EmptyFrame
  /\ df_airports = EmptyFrame
  /\ df_airlines = EmptyFrame
  /\ tables = [t \in TableNames |-> <<>>]
  /\ appends = [t \in TableNames |-> 0]
  /\ look_ups = <<>>
  /\ pc = "uniques"
  /\ raised = ""
  /\ SchemaIdle
  /\ frame_in \in AirlineFrames
  /\ frame_once = EmptyFrame
  /\ frame_twice = EmptyFrame

NextUniques == UniquesOnce \/ UniquesTwice

SpecUniques == InitUniques /\ [][NextUniques]_vars

(***************************************************************************)
(* What the claims speak of, computed from the files read so far.          *)
(***************************************************************************)
Dimensions == {"time_period", "airports", "airlines"}

\* the rows of all files read so far under the given columns, in file order
\* and, within a file, in line order
RowsSoFar(files, cols) ==
  Flatten([k \in 1..Len(files) |->
             [i \in 1..Len(files[k].rows) |->
                [c \in Range(cols) |-> files[k].rows[i][c]]]])

\* a csv row's airport on one side, under the airport table's column names
AirportOf(row, side) ==
  [c \in Range(cols_airport) |->
     row[IF c = "Airport" THEN side ELSE side \o c]]

\* the airport rows in processing order: per file, the destinations in line
\* order, then the origins in line order
AirportOrder(files) ==
  Flatten([k \in 1..Len(files) |->
             [i \in 1..Len(files[k].rows) |-> AirportOf(files[k].rows[i], "Dest")]
             \o
             [i \in 1..Len(files[k].rows) |-> AirportOf(files[k].rows[i], "Origin")]])

\* the values of a key column, a missing cell not being a value
ValuesOf(rows, key) == {rows[i][key] : i \in 1..Len(rows)} \ {NaN}

\* the earliest row with the given key value
FirstWith(rows, key, v) ==
  rows[CHOOSE i \in 1..Len(rows) :
         rows[i][key] = v /\ \A j \in 1..(i - 1) : rows[j][key] # v]

\* out has exactly one row for every key value of src, and no other row
OnePerKey(out, src, key) ==
  /\ \A v \in ValuesOf(src, key) :
       Cardinality({i \in 1..Len(out) : out[i][key] = v}) = 1
  /\ \A i \in 1..Len(out) : out[i][key] \in ValuesOf(src, key)

\* every row of out is the earliest row of src with its key value
FirstWins(out, src, key) ==
  \A i \in 1..Len(out) :
     /\ out[i][key] \in ValuesOf(src, key)
     /\ out[i] = FirstWith(src, key, out[i][key])

\* two rows of the sequence share the key value and differ elsewhere
KeyConflict(rows, key) ==
  \E i, j \in 1..Len(rows) :
     i < j /\ rows[i][key] = rows[j][key] /\ rows[i] # rows[j]

\* all three appends have just been made, no look-up file transferred yet
Flushed == pc = "look_up" /\ look_ups = <<>>

\* the flush has been made, or the run has been ended by an exception
FlushEnded == Flushed \/ pc = "error"

(***************************************************************************)
(* C1. After the final flush the time_period table holds exactly one row   *)
(* per distinct FlightDate that occurred in any file.                      *)
(***************************************************************************)
C1_OneTimePeriodPerFlightDate ==
  FlushEnded =>
    OnePerKey(tables.time_period, RowsSoFar(batches, cols_time), "FlightDate")

(***************************************************************************)
(* C2. For any files, once the run has flushed or ended, the airlines      *)
(* table holds exactly one row per distinct Reporting_Airline that         *)
(* occurred in any file, and that row is the earliest one with that key in *)
(* file order, then line order.                                            *)
(***************************************************************************)
C2_AirlinesFirstWins ==
  FlushEnded =>
    /\ OnePerKey(tables.airlines, RowsSoFar(batches, cols_airline),
                 "Reporting_Airline")
    /\ FirstWins(tables.airlines, RowsSoFar(batches, cols_airline),
                 "Reporting_Airline")

\* the same, of the runs in which all three appends were made
AirlinesFirstWinsWhenFlushed ==
  Flushed =>
    /\ OnePerKey(tables.airlines, RowsSoFar(batches, cols_airline),
                 "Reporting_Airline")
    /\ FirstWins(tables.airlines, RowsSoFar(batches, cols_airline),
                 "Reporting_Airline")

\* a flushed run of two files in which one airline occurs with different
\* details in both files, the airline dataframe holding a copy per file
FlushedWithAirlineConflict ==
  /\ Flushed
  /\ Len(batches) = 2
  /\ \E v \in ValuesOf(RowsSoFar(batches, cols_airline), "Reporting_Airline") :
       /\ v \in ValuesOf(batches[1].rows, "Reporting_Airline")
       /\ v \in ValuesOf(batches[2].rows, "Reporting_Airline")
  /\ KeyConflict(RowsSoFar(batches, cols_airline), "Reporting_Airline")
  /\ Len(df_airlines.rows) > Len(tables.airlines)

(***************************************************************************)
(* C3. After every processed file the airport dataframe holds at most one  *)
(* row per AirportID and a row for every value that occurred as            *)
(* OriginAirportID or DestAirportID in the files read so far, and no other *)
(* row.                                                                    *)
(***************************************************************************)
C3_AirportsOnePerKey ==
  LET ids == ValuesOf(RowsSoFar(batches, <<"OriginAirportID">>), "OriginAirportID")
             \cup ValuesOf(RowsSoFar(batches, <<"DestAirportID">>), "DestAirportID")
      rows == df_airports.rows
  IN  /\ \A i, j \in 1..Len(rows) :
           rows[i]["AirportID"] = rows[j]["AirportID"] => i = j
      /\ \A v \in ids : \E i \in 1..Len(rows) : rows[i]["AirportID"] = v
      /\ \A i \in 1..Len(rows) : rows[i]["AirportID"] \in ids
      /\ Len(rows) = Cardinality(ids)

\* a file with one flight a -> b, then a file with one flight b -> a, and
\* two airport rows
C3_Witness ==
  /\ Len(batches) = 2
  /\ Len(batches[1].rows) = 1
  /\ Len(batches[2].rows) = 1
  /\ batches[1].rows[1]["OriginAirportID"] = batches[2].rows[1]["DestAirportID"]
  /\ batches[1].rows[1]["DestAirportID"] = batches[2].rows[1]["OriginAirportID"]
  /\ batches[1].rows[1]["OriginAirportID"] # batches[1].rows[1]["DestAirportID"]
  /\ Len(df_airports.rows) = 2

(***************************************************************************)
(* C4. The flights table holds, after every file, exactly the rows of the  *)
(* files read so far under the flights columns, in file order and line     *)
(* order, duplicates included; one to_sql call per file.                   *)
(***************************************************************************)
C4_FlightsPassThrough ==
  /\ tables.flights = RowsSoFar(batches, db_tables.flights)
  /\ appends.flights = Len(batches)

\* two equal flight rows have been appended
C4_Witness ==
  \E i, j \in 1..Len(tables.flights) :
     i < j /\ tables.flights[i] = tables.flights[j]

(***************************************************************************)
(* C8. A file that has no rows, or whose rows carry no FlightDate,         *)
(* Reporting_Airline or airport id that an earlier file did not carry,     *)
(* raises no error, and the rows flushed to the three dimension tables are *)
(* those of the run without that file.                                     *)
(***************************************************************************)
\* the three dimension dataframes after the given files
RECURSIVE BuffersAfter(_)
BuffersAfter(files) ==
  IF files = <<>>
  THEN [time_period |-> EmptyFrame, airports |-> EmptyFrame,
        airlines |-> EmptyFrame]
  ELSE LET before == BuffersAfter(SubSeq(files, 1, Len(files) - 1))
           df == files[Len(files)]
           tabs == make_database(files[1].columns)
       IN  [time_period |-> ProcessTimePeriods(before.time_period, df, tabs),
            airports |-> ProcessAirports(before.airports, df, tabs),
            airlines |-> ProcessAirlines(before.airlines, df, tabs)]

\* what a whole run over the given files raises and flushes
RunOver(files) ==
  LET buffers == BuffersAfter(files)
      none == [t \in TableNames |-> <<>>]
      zero == [t \in TableNames |-> 0]
      first == to_sql(none, zero, buffers.time_period, "time_period")
      airports == get_uniques(buffers.airports, "AirportID")
      second == to_sql(first.rows, first.calls, airports, "airports")
      airlines == get_uniques(buffers.airlines, "Reporting_Airline")
      third == to_sql(second.rows, second.calls, airlines, "airlines")
      Ended(error, db) ==
        [raised |-> error, time_period |-> db.time_period,
         airports |-> db.airports, airlines |-> db.airlines]
  IN  IF files = <<>> THEN Ended("NameError", none)
      ELSE IF first.error # "" THEN Ended(first.error, first.rows)
      ELSE IF IsError(airports) THEN Ended(airports.error, first.rows)
      ELSE IF second.error # "" THEN Ended(second.error, second.rows)
      ELSE IF IsError(airlines) THEN Ended(airlines.error, second.rows)
      ELSE Ended(third.error, third.rows)

\* the run as the state machine made it
ThisRun ==
  [raised |-> raised, time_period |-> tables.time_period,
   airports |-> tables.airports, airlines |-> tables.airlines]

Without(files, k) ==
  SubSeq(files, 1, k - 1) \o SubSeq(files, k + 1, Len(files))

\* file k adds no key value to any dimension
AddsNothing(files, k) ==
  LET earlier == SubSeq(files, 1, k - 1)
      this == <<files[k]>>
  IN  /\ ValuesOf(RowsSoFar(this, cols_time), "FlightDate")
           \subseteq ValuesOf(RowsSoFar(earlier, cols_time), "FlightDate")
      /\ ValuesOf(RowsSoFar(this, cols_airline), "Reporting_Airline")
           \subseteq ValuesOf(RowsSoFar(earlier, cols_airline), "Reporting_Airline")
      /\ ValuesOf(AirportOrder(this), "AirportID")
           \subseteq ValuesOf(AirportOrder(earlier), "AirportID")

C8_NoOpBatch ==
  FlushEnded =>
    \A k \in 1..Len(batches) :
       AddsNothing(batches, k) =>
         /\ raised = ""
         /\ LET other == RunOver(Without(batches, k))
            IN  /\ tables.time_period = other.time_period
                /\ tables.airports = other.airports
                /\ tables.airlines = other.airlines

(***************************************************************************)
(* C9. After any sequence of files every row of the airport dataframe is   *)
(* the first row with its AirportID in processing order (per file the      *)
(* destination rows in line order, then the origin rows in line order).    *)
(***************************************************************************)
C9_AirportsFirstWins ==
  FirstWins(df_airports.rows, AirportOrder(batches), "AirportID")

\* two files read, an airport described differently in the first file and
\* in the second
C9_Witness ==
  /\ Len(batches) = 2
  /\ \E v \in ValuesOf(AirportOrder(<<batches[1]>>), "AirportID") :
       /\ v \in ValuesOf(AirportOrder(<<batches[2]>>), "AirportID")
       /\ FirstWith(AirportOrder(<<batches[1]>>), "AirportID", v)
            # FirstWith(AirportOrder(<<batches[2]>>), "AirportID", v)
       /\ \E i \in 1..Len(df_airports.rows) :
            df_airports.rows[i] = FirstWith(AirportOrder(<<batches[1]>>), "AirportID", v)

(***************************************************************************)
(* C10. While files are still being processed no row has been appended to  *)
(* time_period, airlines or airports; a completed run has made exactly one *)
(* append to each of them; and once an append to one of them has been      *)
(* made, the flights table is appended to no more.                         *)
(***************************************************************************)
C10_State ==
  /\ pc = "loop" =>
       \A d \in Dimensions : tables[d] = <<>> /\ appends[d] = 0
  /\ pc = "done" => \A d \in Dimensions : appends[d] = 1
  /\ \A d \in Dimensions : appends[d] <= 1

C10_Step ==
  (\E d \in Dimensions : appends'[d] > 0) =>
     /\ appends'.flights = appends.flights
     /\ tables'.flights = tables.flights

C10_DimensionsAtFlushOnly == [](C10_State) /\ [][C10_Step]_vars

\* a completed run over two files
C10_Witness ==
  /\ pc = "done"
  /\ Len(batches) = 2
  /\ \A d \in Dimensions : tables[d] # <<>>

\* the state machine and RunOver agree on every run
RunAgrees == FlushEnded => ThisRun = RunOver(batches)

(***************************************************************************)
(* C5 as stated. In the returned dictionary every flights column is absent *)
(* from the time_period, airlines and airports lists except the four id    *)
(* columns, and each id column is in the flights list and in one of the    *)
(* three dimension lists.                                                  *)
(***************************************************************************)
C5_AsStated ==
  pc = "schema_done" =>
    LET dims == Range(sample_tables.time_period)
                \cup Range(sample_tables.airlines)
                \cup Range(sample_tables.airports)
    IN  /\ \A c \in Range(sample_tables.flights) :
             c \in dims => c \in Range(cols_id)
        /\ \A c \in Range(cols_id) :
             c \in Range(sample_tables.flights) /\ c \in dims

(***************************************************************************)
(* C5 amended. Every flights column is absent from the time_period and     *)
(* airlines lists and from the Origin- and Dest-prefixed forms of the      *)
(* airports list, except the four id columns; each id column is in the     *)
(* flights list; FlightDate is in time_period, Reporting_Airline is in     *)
(* airlines, and OriginAirportID and DestAirportID are the prefixed forms  *)
(* of the airports column AirportID.                                       *)
(***************************************************************************)
C5_FlightsDisjointButIds ==
  pc = "schema_done" =>
    LET origin == Prefixed("Origin", sample_tables.airports)
        dest == Prefixed("Dest", sample_tables.airports)
        claimed == Range(sample_tables.time_period)
                   \cup Range(sample_tables.airlines)
                   \cup Range(origin) \cup Range(dest)
    IN  /\ \A c \in Range(sample_tables.flights) :
             c \in claimed => c \in Range(cols_id)
        /\ \A c \in Range(cols_id) : c \in Range(sample_tables.flights)
        /\ "FlightDate" \in Range(sample_tables.time_period)
        /\ "Reporting_Airline" \in Range(sample_tables.airlines)
        /\ \E i \in 1..Len(sample_tables.airports) :
             /\ sample_tables.airports[i] = "AirportID"
             /\ origin[i] = "OriginAirportID"
             /\ dest[i] = "DestAirportID"

\* a schema derived from a file with a column outside the literal lists
C5_Witness ==
  /\ pc = "schema_done"
  /\ Len(sample.columns) > Len(ClaimColumns)
  /\ Len(sample_tables.flights) > Len(cols_id)

(***************************************************************************)
(* C6. Every column of every table gets INTEGER for integral content, REAL *)
(* for fractional content and TEXT for any other content, an entirely      *)
(* missing column included, followed by the primary-key marker exactly     *)
(* when the column is the table's primary key.                             *)
(***************************************************************************)
C6_TypesTotal ==
  pc = "schema_done" =>
    \A t \in TableNames :
       LET cols == IF t = "airports" THEN cols_airport_dest
                   ELSE sample_tables[t]
           key == CASE t = "time_period" -> "FlightDate"
                    [] t = "airports" -> "DestAirportID"
                    [] t = "airlines" -> "Reporting_Airline"
                    [] OTHER -> None
       IN  /\ Len(sample_types[t]) = Len(cols)
           /\ \A i \in 1..Len(cols) :
                LET kind == sample.kinds[cols[i]]
                    type == CASE kind = "integral" -> "INTEGER"
                              [] kind = "fractional" -> "REAL"
                              [] OTHER -> "TEXT"
                IN  sample_types[t][i] =
                      IF cols[i] = key THEN type \o " PRIMARY KEY" ELSE type

(***************************************************************************)
(* C7. get_uniques applied to its own result raises nothing and returns    *)
(* the same rows in the same order.                                        *)
(***************************************************************************)
C7_UniquesIdempotent ==
  pc = "uniques_twice" =>
    /\ ~IsError(frame_twice)
    /\ frame_twice.rows = frame_once.rows

====
